---- MODULE Spec2Model ----
(***************************************************************************)
(* Model of the probing subsystem of be-aware-backend:                     *)
(*   src/src/utils/scanner.ts        getWhoisInfo, getSSLDetails,          *)
(*                                   getHostingDetails, takeScreenshot     *)
(*   src/src/controller/url-checker-controller.ts   urlChecker             *)
(*                                                                         *)
(* Time is counted in whole seconds.  Every socket carries the idle timer  *)
(* that socket.setTimeout(5000, cb) arms: the runtime restarts it on every *)
(* socket activity (connect, write, received chunk) and clears it when     *)
(* the socket is destroyed.                                                *)
(***************************************************************************)
EXTENDS Integers, Sequences, FiniteSets

VARIABLES now, whois, ssl, hosting, gather, shot, calc

vars == <<now, whois, ssl, hosting, gather, shot, calc>>

(***************************************************************************)
(* Bounds of the model                                                     *)
(***************************************************************************)
MaxTime == 6       \* the clock saturates here
MaxChunks == 2     \* chunks a WHOIS server sends in one run
MaxDays == 3       \* a certificate's validTo is within this many days of now
MaxLabels == 3     \* labels of a domain whose root domain is computed
MaxLines == 2      \* lines of a WHOIS response that is parsed

(***************************************************************************)
(* Program constants                                                       *)
(***************************************************************************)
TimeoutSecs == 5   \* socket.setTimeout(5000, ...)
DayMs == 86400000  \* 1000 * 60 * 60 * 24

NoResult == [none |-> TRUE]
Null == [null |-> TRUE]

\* no function is being applied on its own
CalcInit == [fn |-> "none"]

Min(a, b) == IF a < b THEN a ELSE b

\* variant: every resolve call replaces the value
ResolveAgain(p, value, cause) ==
    [p EXCEPT !.promise = "fulfilled", !.result = value, !.by = cause]

\* variant: the error handlers reject instead of resolving
RejectOnError(p, value, cause) ==
    IF p.promise = "pending"
    THEN IF cause = "error"
         THEN [p EXCEPT !.promise = "rejected", !.by = cause]
         ELSE [p EXCEPT !.promise = "fulfilled", !.result = value,
                        !.by = cause]
    ELSE p

(***************************************************************************)
(* Promise: the first resolve or reject settles it, later calls are no-ops *)
(***************************************************************************)
Resolve(p, value, cause) ==
    IF p.promise = "pending"
    THEN [p EXCEPT !.promise = "fulfilled", !.result = value, !.by = cause]
    ELSE p

(***************************************************************************)
(* socket.destroy(): closes the socket and clears its timer; a no-op on a  *)
(* socket that is already destroyed                                        *)
(***************************************************************************)
Destroy(p) ==
    IF p.sock = "closed"
    THEN p
    ELSE [p EXCEPT !.sock = "closed", !.closes = @ + 1]

\* the idle timer is armed from setTimeout until the socket is destroyed
TimerArmed(p) == p.sock \notin {"none", "closed"}
TimerDue(p) == TimerArmed(p) /\ p.idle >= TimeoutSecs
\* socket activity restarts the idle timer
Refresh(p) == [p EXCEPT !.idle = 0]

\* Promise.all settles: rejected as soon as one input is rejected,
\* fulfilled once every input is fulfilled
AnyRejected == "rejected" \in {whois.promise, ssl.promise, hosting.promise}
AllFulfilled == {whois.promise, ssl.promise, hosting.promise} = {"fulfilled"}
JoinReady == gather.pc = "joining" /\ (AnyRejected \/ AllFulfilled)

\* callbacks of the event loop run only when no promise continuation is due
EventLoopTurn == ~JoinReady

(***************************************************************************)
(* WHOIS response text: a sequence of tokens (labels, blanks, newlines,    *)
(* words); a chunk is a piece of it                                        *)
(***************************************************************************)
Chunks ==
    { <<"Domain Name:", " ", "EXAMPLE.COM", "\n">>,
      <<"Creation Date:", " ", "1995-08-14T04:00:00Z", "\n">> }

IsSpace(t) == t \in {" ", "\n"}

\* variant: the labels are matched case-sensitively
LabelOfExact(t) ==
    CASE t \in {"Domain Name:"} -> "domain name:"
      [] t \in {"Registrar:", "Sponsoring Registrar:"} -> "registrar:"
      [] t \in {"Creation Date:"} -> "creation date:"
      [] t \in {"Registry Expiry Date:"} -> "registry expiry date:"
      [] OTHER -> "none"

\* the label a token ends with, lower-cased (the regexes are unanchored and /i)
LabelOf(t) ==
    CASE t \in {"Domain Name:", "domain name:"} -> "domain name:"
      [] t \in {"Registrar:", "Sponsoring Registrar:"} -> "registrar:"
      [] t \in {"Creation Date:", "creation date:"} -> "creation date:"
      [] t \in {"Registry Expiry Date:"} -> "registry expiry date:"
      [] OTHER -> "none"

\* index after the longest run of tokens satisfying the test, from i
RECURSIVE RunEnd(_, _, _)
RunEnd(s, i, space) ==
    IF i > Len(s) THEN i
    ELSE IF (space /\ IsSpace(s[i])) \/ (~space /\ s[i] # "\n")
         THEN RunEnd(s, i + 1, space)
         ELSE i

\* String.prototype.trim on a token sequence
RECURSIVE Trim(_)
Trim(s) ==
    IF s = <<>> THEN s
    ELSE IF IsSpace(Head(s)) THEN Trim(Tail(s))
    ELSE IF IsSpace(s[Len(s)]) THEN Trim(SubSeq(s, 1, Len(s) - 1))
    ELSE s

\* /label\s+(.+)/ tried with the label at position i: the capture, or Null.
\* \s+ is greedy and gives blanks back until (.+) can take a non-newline.
RECURSIVE Capture(_, _, _)
Capture(s, i, p) ==
    \* p: first position offered to (.+); tokens i+1 .. p-1 are \s+
    IF p <= i + 1 THEN Null
    ELSE IF p <= Len(s) /\ s[p] # "\n"
         THEN [text |-> SubSeq(s, p, RunEnd(s, p, FALSE) - 1)]
         ELSE Capture(s, i, p - 1)

\* data.match(/label\s+(.+)/i): leftmost match, its group 1, or Null
RECURSIVE Match(_, _, _)
Match(s, label, i) ==
    IF i > Len(s) THEN Null
    ELSE IF LabelOf(s[i]) = label
         THEN LET c == Capture(s, i, RunEnd(s, i + 1, TRUE))
              IN IF c = Null THEN Match(s, label, i + 1) ELSE c
         ELSE Match(s, label, i + 1)

\* one "if (m && m[1]) whoisInfo.f = m[1].trim()" step
SetField(rec, field, s, label) ==
    LET m == Match(s, label, 1)
    IN IF m = Null \/ m.text = <<>>
       THEN rec
       ELSE [x \in (DOMAIN rec) \cup {field} |->
                IF x = field THEN Trim(m.text) ELSE rec[x]]

\* the record built by the "end" handler
ParseWhois(data) ==
    SetField(
      SetField(
        SetField(
          SetField([raw |-> data], "domainName", data, "domain name:"),
          "registrar", data, "registrar:"),
        "creationDate", data, "creation date:"),
      "expirationDate", data, "registry expiry date:")

WhoisErrorRecord == [raw |-> <<"Error fetching whois data">>]
WhoisTimeoutRecord == [raw |-> <<"Whois request timed out">>]

(***************************************************************************)
(* Domain names: a sequence of tokens, each a label or the dot             *)
(***************************************************************************)
\* str.split(".")
RECURSIVE Split(_)
Split(str) ==
    IF \A i \in 1..Len(str) : str[i] # "."
    THEN <<str>>
    ELSE LET i == CHOOSE k \in 1..Len(str) :
                     /\ str[k] = "."
                     /\ \A j \in 1..(k - 1) : str[j] # "."
         IN <<SubSeq(str, 1, i - 1)>> \o Split(SubSeq(str, i + 1, Len(str)))

\* parts.join(".")
RECURSIVE Join(_)
Join(parts) ==
    IF Len(parts) = 0 THEN <<>>
    ELSE IF Len(parts) = 1 THEN parts[1]
    ELSE parts[1] \o <<".">> \o Join(Tail(parts))

\* parts.slice(-n)
SliceLast(parts, n) ==
    SubSeq(parts, IF Len(parts) > n THEN Len(parts) - n + 1 ELSE 1, Len(parts))

\* variant: the last three parts are kept
RootDomainLastThree(domain) ==
    LET parts == Split(domain)
    IN IF Len(parts) > 2 THEN Join(SliceLast(parts, 3)) ELSE domain

\* parts.length > 2 ? parts.slice(-2).join('.') : domain
RootDomain(domain) ==
    LET parts == Split(domain)
    IN IF Len(parts) > 2 THEN Join(SliceLast(parts, 2)) ELSE domain

\* rootDomain.split(".").pop()
Tld(rootDomain) ==
    LET parts == Split(rootDomain)
    IN parts[Len(parts)]

\* variant: org names are looked up at the com/net registry too
WhoisServerOrgAtVerisign(tld) ==
    IF tld \in {<<"com">>, <<"net">>, <<"org">>} THEN "whois.verisign-grs.com"
    ELSE IF tld = <<"io">> THEN "whois.nic.io"
    ELSE "whois.iana.org"

\* the lookup map of getWhoisInfo
WhoisServer(tld) ==
    IF tld = <<"com">> \/ tld = <<"net">> THEN "whois.verisign-grs.com"
    ELSE IF tld = <<"org">> THEN "whois.pir.org"
    ELSE IF tld = <<"io">> THEN "whois.nic.io"
    ELSE "whois.iana.org"

\* domains getWhoisInfo is called with on its own
WhoisDomains ==
    { <<"localhost">>,
      <<"example", ".", "com">>,
      <<"www", ".", "example", ".", "net">>,
      <<"a", ".", "b", ".", "example", ".", "org">>,
      <<"nic", ".", "io">>,
      <<"www", ".", "example", ".", "co", ".", "uk">> }

\* the hostname of a request as a domain text
DomainText(hostname) ==
    CASE hostname = "example.com" -> <<"example", ".", "com">>
      [] hostname = "www.example.com" -> <<"www", ".", "example", ".", "com">>

(***************************************************************************)
(* getWhoisInfo                                                            *)
(***************************************************************************)
\* contacted: the servers createConnection was called with;
\* written: the texts passed to socket.write
WhoisInit ==
    [sock |-> "none", idle |-> 0, data |-> <<>>, chunks |-> 0,
     promise |-> "none", result |-> NoResult, by |-> "none",
     late |-> FALSE, writes |-> 0, closes |-> 0, closeCalls |-> 0,
     domain |-> <<>>, rootDomain |-> <<>>, contacted |-> <<>>,
     written |-> <<>>]

\* the body up to the end of new Promise(...): root domain and server
\* computed, createConnection, handlers registered, timer armed
WhoisStarted(domain) ==
    LET rootDomain == RootDomain(domain)
    IN [WhoisInit EXCEPT !.sock = "connecting", !.promise = "pending",
                         !.domain = domain, !.rootDomain = rootDomain,
                         !.contacted = <<WhoisServer(Tld(rootDomain))>>]

\* the connect callback: socket.write(rootDomain + "\r\n")
WhoisConnect ==
    /\ EventLoopTurn /\ ~TimerDue(whois)
    /\ whois.sock = "connecting"
    /\ whois' = Refresh([whois EXCEPT
                  !.sock = "connected", !.writes = @ + 1,
                  !.written = Append(@, whois.rootDomain \o <<"\r\n">>)])
    /\ UNCHANGED <<now, ssl, hosting, gather, shot, calc>>

\* variant: a chunk is put in front of what was received before
WhoisDataPrepend ==
    /\ EventLoopTurn /\ ~TimerDue(whois)
    /\ whois.sock \in {"connected", "receiving"}
    /\ whois.chunks < MaxChunks
    /\ \E chunk \in Chunks :
         whois' = Refresh([whois EXCEPT
                     !.sock = "receiving",
                     !.data = chunk \o @,
                     !.chunks = @ + 1,
                     !.late = (whois.data = <<>> /\ now > TimeoutSecs) \/ @])
    /\ UNCHANGED <<now, ssl, hosting, gather, shot, calc>>

\* socket.on("data"): data += chunk
WhoisData ==
    /\ EventLoopTurn /\ ~TimerDue(whois)
    /\ whois.sock \in {"connected", "receiving"}
    /\ whois.chunks < MaxChunks
    /\ \E chunk \in Chunks :
         whois' = Refresh([whois EXCEPT
                     !.sock = "receiving",
                     !.data = @ \o chunk,
                     !.chunks = @ + 1,
                     !.late = (whois.data = <<>> /\ now > TimeoutSecs) \/ @])
    /\ UNCHANGED <<now, ssl, hosting, gather, shot, calc>>

\* socket.on("end"): the peer closed its side; parse and resolve
WhoisEnd ==
    /\ EventLoopTurn /\ ~TimerDue(whois)
    /\ whois.sock \in {"connected", "receiving"}
    /\ whois' = Resolve([whois EXCEPT !.sock = "ended"],
                        ParseWhois(whois.data), "end")
    /\ UNCHANGED <<now, ssl, hosting, gather, shot, calc>>

\* after the peer's EOF the runtime ends our side and closes the socket
WhoisClose ==
    /\ EventLoopTurn /\ ~TimerDue(whois)
    /\ whois.sock = "ended"
    /\ whois' = Destroy(whois)
    /\ UNCHANGED <<now, ssl, hosting, gather, shot, calc>>

\* variant: the error handler resolves with what was received so far
WhoisErrorPartial ==
    /\ EventLoopTurn /\ ~TimerDue(whois)
    /\ whois.sock \in {"connecting", "connected", "receiving", "ended"}
    /\ whois' = Resolve(Destroy(whois), ParseWhois(whois.data), "error")
    /\ UNCHANGED <<now, ssl, hosting, gather, shot, calc>>

\* socket.on("error"): the runtime has destroyed the socket
WhoisError ==
    /\ EventLoopTurn /\ ~TimerDue(whois)
    /\ whois.sock \in {"connecting", "connected", "receiving", "ended"}
    /\ whois' = Resolve(Destroy(whois), WhoisErrorRecord, "error")
    /\ UNCHANGED <<now, ssl, hosting, gather, shot, calc>>

\* variant: the timeout callback resolves and leaves the socket open
WhoisTimeoutNoDestroy ==
    /\ EventLoopTurn
    /\ TimerDue(whois)
    /\ whois.promise = "pending"
    /\ whois' = Resolve(whois, WhoisTimeoutRecord, "timeout")
    /\ UNCHANGED <<now, ssl, hosting, gather, shot, calc>>

\* the setTimeout callback: socket.destroy(); resolve(...)
WhoisTimeout ==
    /\ EventLoopTurn
    /\ TimerDue(whois)
    /\ whois' = Resolve(Destroy([whois EXCEPT !.closeCalls = @ + 1]),
                        WhoisTimeoutRecord, "timeout")
    /\ UNCHANGED <<now, ssl, hosting, gather, shot, calc>>

(***************************************************************************)
(* getSSLDetails                                                           *)
(***************************************************************************)
\* socket.getPeerCertificate(): an empty object when the peer sent none;
\* msLeft is validTo - new Date(), in milliseconds
EmptyCert == [k \in {} |-> 0]
PeerCert(m) ==
    [subject |-> "CN=example.com", issuer |-> "CN=Example CA",
     valid_from |-> "Jan  1 2024", valid_to |-> "validTo", msLeft |-> m]
PeerCerts == { PeerCert(m) : m \in {-1, 2 * DayMs} }

SslInit ==
    [sock |-> "none", idle |-> 0,
     promise |-> "none", result |-> NoResult, by |-> "none",
     closes |-> 0, closeCalls |-> 0]

\* new Promise(...): tls.connect, handlers registered, timer armed
SslStarted ==
    [SslInit EXCEPT !.sock = "connecting", !.promise = "pending"]

\* socket.end(): half-closes the socket (our FIN is sent, the peer's side
\* stays open until the peer closes or the socket is destroyed)
End(p) ==
    IF p.sock = "closed"
    THEN p
    ELSE [p EXCEPT !.sock = "ended"]

\* variant: the quotient is truncated toward zero
DaysRemainingTruncated(cert) ==
    IF cert.msLeft >= 0
    THEN cert.msLeft \div DayMs
    ELSE -((-cert.msLeft) \div DayMs)

\* variant: Math.round in place of Math.floor
DaysRemainingRounded(cert) == (cert.msLeft + DayMs \div 2) \div DayMs

\* Math.floor((validTo - new Date()) / (1000 * 60 * 60 * 24))
DaysRemaining(cert) == cert.msLeft \div DayMs

\* variant: valid is the handshake's authorization flag
SslInfoAuthorized(cert, authorized) ==
    [valid |-> authorized,
     subject |-> cert.subject,
     issuer |-> cert.issuer,
     validFrom |-> cert.valid_from,
     validTo |-> cert.valid_to,
     daysRemaining |-> DaysRemaining(cert)]

\* the SSLInfo built by the tls.connect callback
SslInfo(cert, authorized) ==
    [valid |-> (authorized \/ TRUE),
     subject |-> cert.subject,
     issuer |-> cert.issuer,
     validFrom |-> cert.valid_from,
     validTo |-> cert.valid_to,
     daysRemaining |-> DaysRemaining(cert)]

\* what the tls.connect callback resolves with
SecureConnectResult(cert, authorized) ==
    IF DOMAIN cert = {}
    THEN Null
    ELSE SslInfo(cert, authorized)

\* the TCP connection is established; the TLS handshake starts
SslTcpConnect ==
    /\ EventLoopTurn /\ ~TimerDue(ssl)
    /\ ssl.sock = "connecting"
    /\ ssl' = Refresh([ssl EXCEPT !.sock = "handshaking"])
    /\ UNCHANGED <<now, whois, hosting, gather, shot, calc>>

\* the tls.connect callback (handshake done)
SslSecureConnect ==
    /\ EventLoopTurn /\ ~TimerDue(ssl)
    /\ ssl.sock = "handshaking"
    /\ \E cert \in PeerCerts \cup {EmptyCert}, authorized \in BOOLEAN :
         LET ended == End([ssl EXCEPT !.closeCalls = @ + 1])
         IN ssl' = Resolve(ended, SecureConnectResult(cert, authorized),
                           "secureConnect")
    /\ UNCHANGED <<now, whois, hosting, gather, shot, calc>>

\* after socket.end() the peer closes its side and the socket closes
SslPeerClose ==
    /\ EventLoopTurn /\ ~TimerDue(ssl)
    /\ ssl.sock = "ended"
    /\ ssl' = Destroy(ssl)
    /\ UNCHANGED <<now, whois, hosting, gather, shot, calc>>

\* socket.on("error"): the runtime has destroyed the socket
SslError ==
    /\ EventLoopTurn /\ ~TimerDue(ssl)
    /\ ssl.sock \in {"connecting", "handshaking", "ended"}
    /\ ssl' = Resolve(Destroy(ssl), Null, "error")
    /\ UNCHANGED <<now, whois, hosting, gather, shot, calc>>

\* variant: the timeout callback destroys the socket and resolves nothing
SslTimeoutNoResolve ==
    /\ EventLoopTurn
    /\ TimerDue(ssl)
    /\ ssl' = Destroy([ssl EXCEPT !.closeCalls = @ + 1])
    /\ UNCHANGED <<now, whois, hosting, gather, shot, calc>>

\* the setTimeout callback: socket.destroy(); resolve(null)
SslTimeout ==
    /\ EventLoopTurn
    /\ TimerDue(ssl)
    /\ ssl' = Resolve(Destroy([ssl EXCEPT !.closeCalls = @ + 1]),
                      Null, "timeout")
    /\ UNCHANGED <<now, whois, hosting, gather, shot, calc>>

(***************************************************************************)
(* getHostingDetails                                                       *)
(***************************************************************************)
Addresses == {"93.184.216.34"}
ReverseAnswers == {<<>>, <<"host.example.net">>}

HostingInit ==
    [pc |-> "none", address |-> "",
     promise |-> "none", result |-> NoResult, by |-> "none"]

\* runs up to "await dns.lookup(hostname)"
HostingStarted ==
    [HostingInit EXCEPT !.pc = "lookup", !.promise = "pending"]

\* dns.lookup settles: on failure the outer catch returns null
DnsLookup ==
    /\ EventLoopTurn
    /\ hosting.pc = "lookup"
    /\ \/ \E a \in Addresses :
            hosting' = [hosting EXCEPT !.pc = "reverse", !.address = a]
       \/ hosting' = Resolve([hosting EXCEPT !.pc = "done"], Null,
                             "lookupError")
    /\ UNCHANGED <<now, whois, ssl, gather, shot, calc>>

\* variant: a failed reverse lookup is not caught apart and yields null
DnsReverseUncaught ==
    /\ EventLoopTurn
    /\ hosting.pc = "reverse"
    /\ \/ \E reverses \in ReverseAnswers :
            hosting' = Resolve([hosting EXCEPT !.pc = "done"],
                          [ip |-> hosting.address,
                           reverse |-> IF Len(reverses) > 0
                                       THEN reverses[1] ELSE ""],
                          "reverse")
       \/ hosting' = Resolve([hosting EXCEPT !.pc = "done"], Null,
                             "reverseError")
    /\ UNCHANGED <<now, whois, ssl, gather, shot, calc>>

\* dns.reverse settles: a failure is ignored, reverse stays ""
DnsReverse ==
    /\ EventLoopTurn
    /\ hosting.pc = "reverse"
    /\ \/ \E reverses \in ReverseAnswers :
            hosting' = Resolve([hosting EXCEPT !.pc = "done"],
                          [ip |-> hosting.address,
                           reverse |-> IF Len(reverses) > 0
                                       THEN reverses[1] ELSE ""],
                          "reverse")
       \/ hosting' = Resolve([hosting EXCEPT !.pc = "done"],
                          [ip |-> hosting.address, reverse |-> ""],
                          "reverseError")
    /\ UNCHANGED <<now, whois, ssl, gather, shot, calc>>

(***************************************************************************)
(* urlChecker: the part of the handler that gathers the technical data and *)
(* hands it to the analysis                                                *)
(***************************************************************************)
\* urls given to takeScreenshot, and the url of the request urlChecker handles
Urls == {"example.com", "https://www.example.com/login"}
RequestUrls == {"www.example.com"}

\* url.startsWith('http')
StartsWithHttp(url) == url \in {"https://www.example.com/login"}

\* new URL(url.startsWith('http') ? url : `https://${url}`).hostname
HostnameOf(url) ==
    LET href == IF StartsWithHttp(url) THEN url ELSE "https://" \o url
    IN CASE href = "https://example.com" -> "example.com"
         [] href = "https://www.example.com" -> "www.example.com"
         [] href = "https://www.example.com/login" -> "www.example.com"

GatherInit ==
    [pc |-> "idle", url |-> "", hostname |-> "",
     technicalData |-> NoResult, summary |-> NoResult]

\* variant: a missing certificate or hosting record blanks the other one
TechnicalDataAllOrNothing(w, s, h) ==
    [url |-> gather.url, hostname |-> gather.hostname,
     whois |-> w,
     ssl |-> IF h = Null THEN Null ELSE s,
     hosting |-> IF s = Null THEN Null ELSE h]

\* const technicalData = { url, hostname, whois, ssl, hosting }
TechnicalData(w, s, h) ==
    [url |-> gather.url, hostname |-> gather.hostname,
     whois |-> w, ssl |-> s, hosting |-> h]

\* variant: the probes awaited one after the other, the first one started
StartProbesSequential ==
    /\ whois' = WhoisStarted(DomainText(gather'.hostname))
    /\ UNCHANGED <<ssl, hosting>>

\* the three calls of the array literal: each probe runs up to its first
\* suspension before Promise.all is called
StartProbes ==
    /\ whois' = WhoisStarted(DomainText(gather'.hostname))
    /\ ssl' = SslStarted
    /\ hosting' = HostingStarted

\* the request handler up to "await Promise.all([...])"
urlChecker ==
    /\ gather.pc = "idle"
    /\ whois.sock = "none" /\ ssl.sock = "none" /\ hosting.pc = "none"
    /\ shot.pc = "idle"
    /\ \E url \in RequestUrls :
         gather' = [gather EXCEPT !.pc = "joining", !.url = url,
                                  !.hostname = HostnameOf(url)]
    /\ StartProbes
    /\ UNCHANGED <<now, shot, calc>>

\* the continuation of "await Promise.all": build technicalData and the
\* prompt, then call the analysis service if a key is configured
Assemble ==
    /\ JoinReady
    /\ IF AnyRejected
       THEN gather' = [gather EXCEPT !.pc = "failed"]
       ELSE \E hasKey \in BOOLEAN :
              gather' = [gather EXCEPT
                 !.pc = IF hasKey THEN "analyzing" ELSE "responded",
                 !.technicalData =
                     TechnicalData(whois.result, ssl.result, hosting.result),
                 !.summary = IF hasKey THEN NoResult
                             ELSE [error |-> "OPENAI_API_KEY not configured"]]
    /\ UNCHANGED <<now, whois, ssl, hosting, shot, calc>>

\* the analysis call settles; the response is sent
Analysis ==
    /\ EventLoopTurn
    /\ gather.pc = "analyzing"
    /\ \E outcome \in {"choices", "noChoices", "throws"} :
         gather' = [gather EXCEPT
            !.pc = "responded",
            !.summary =
               CASE outcome = "choices" -> [label |-> "Safe"]
                 [] outcome = "noChoices" ->
                      [error |-> "Failed to get analysis from AI"]
                 [] outcome = "throws" ->
                      [error |-> "AI Analysis failed to execute"]]
    /\ UNCHANGED <<now, whois, ssl, hosting, shot, calc>>

(***************************************************************************)
(* The exported probes called on their own                                 *)
(***************************************************************************)
getWhoisInfo ==
    /\ gather.pc = "idle" /\ shot.pc = "idle"
    /\ whois.sock = "none" /\ ssl.sock = "none" /\ hosting.pc = "none"
    /\ \E domain \in WhoisDomains : whois' = WhoisStarted(domain)
    /\ UNCHANGED <<now, ssl, hosting, gather, shot, calc>>

getSSLDetails ==
    /\ gather.pc = "idle" /\ shot.pc = "idle"
    /\ whois.sock = "none" /\ ssl.sock = "none" /\ hosting.pc = "none"
    /\ ssl' = SslStarted
    /\ UNCHANGED <<now, whois, hosting, gather, shot, calc>>

(***************************************************************************)
(* One second passes.  A due timer fires before more time passes and       *)
(* before a later event of its socket is handled, and a due promise        *)
(* continuation runs before anything else.                                 *)
(***************************************************************************)
Age(p) == IF TimerArmed(p) THEN [p EXCEPT !.idle = @ + 1] ELSE p

Tick ==
    /\ EventLoopTurn
    /\ \/ TimerArmed(whois) \/ TimerArmed(ssl)
       \/ hosting.pc \in {"lookup", "reverse"}
       \/ gather.pc = "analyzing"
    /\ ~TimerDue(whois) /\ ~TimerDue(ssl)
    /\ now' = Min(now + 1, MaxTime)
    /\ whois' = Age(whois)
    /\ ssl' = Age(ssl)
    /\ UNCHANGED <<hosting, gather, shot, calc>>

(***************************************************************************)
(* takeScreenshot                                                          *)
(***************************************************************************)
\* what page.goto can reject with: the message of the error, as tokens
\* (NoMessage: a thrown value that has no message string)
NoMessage == <<>>
GotoErrors ==
    { <<"net::", "ERR_NAME_NOT_RESOLVED", " at ">>,
      <<"net::", "ERR_CONNECTION_REFUSED", " at ">>,
      <<"net::", "ERR_CONNECTION_RESET", " at ">>,
      <<"net::", "ERR_CONNECTION_TIMED_OUT", " at ">>,
      <<"Navigation timeout of 15000 ms exceeded">>,
      NoMessage }

\* String.prototype.includes on a tokenised message
Includes(msg, part) == \E i \in 1..Len(msg) : msg[i] = part

\* the test of the inner catch: the host cannot be reached
IsUnreachable(msg) ==
    \/ Includes(msg, "ERR_NAME_NOT_RESOLVED")
    \/ Includes(msg, "ERR_CONNECTION_REFUSED")
    \/ Includes(msg, "DNS_PROBE_FINISHED_NXDOMAIN")

\* isVercel ? '/tmp' : path.join(process.cwd(), 'temp')
TempDir(isVercel) == IF isVercel THEN "/tmp" ELSE "cwd/temp"

ShotInit ==
    [pc |-> "idle", url |-> "", targetUrl |-> "", isVercel |-> FALSE,
     browser |-> "undefined", alive |-> FALSE, gotoError |-> <<"none">>,
     dirExists |-> FALSE, mkdirCalled |-> FALSE,
     screenshotCalled |-> FALSE, fileWritten |-> FALSE, fileOnDisk |-> FALSE,
     ret |-> NoResult, result |-> NoResult, raised |-> FALSE,
     closeCalled |-> FALSE, closeFailed |-> FALSE, logs |-> {}]

\* variant: the catch returns at once, without the cleanup of finally
CaughtNoCleanup(sh) ==
    [sh EXCEPT !.pc = "returned", !.ret = Null, !.result = Null,
               !.logs = @ \cup {"Screenshot Error:"}]

\* catch (e) { console.error("Screenshot Error:", e); return null; }
Caught(sh) ==
    [sh EXCEPT !.pc = "finally", !.ret = Null,
               !.logs = @ \cup {"Screenshot Error:"}]

\* the call, up to "await getBrowser()"
takeScreenshot ==
    /\ shot.pc = "idle"
    /\ gather.pc = "idle" /\ whois.sock = "none" /\ ssl.sock = "none"
    /\ hosting.pc = "none"
    /\ \E url \in Urls, isVercel \in BOOLEAN, dirExists \in BOOLEAN :
         shot' = [shot EXCEPT !.pc = "getBrowser", !.url = url,
                              !.isVercel = isVercel,
                              !.dirExists = dirExists]
    /\ UNCHANGED <<now, whois, ssl, hosting, gather, calc>>

\* browser = await getBrowser()
ShotGetBrowser ==
    /\ shot.pc = "getBrowser"
    /\ \/ shot' = [shot EXCEPT !.pc = "newPage", !.browser = "launched",
                               !.alive = TRUE]
       \/ shot' = Caught(shot)
    /\ UNCHANGED <<now, whois, ssl, hosting, gather, calc>>

\* const page = await browser.newPage()
ShotNewPage ==
    /\ shot.pc = "newPage"
    /\ \/ shot' = [shot EXCEPT !.pc = "setViewport"]
       \/ shot' = Caught(shot)
    /\ UNCHANGED <<now, whois, ssl, hosting, gather, calc>>

\* await page.setViewport(...); targetUrl; "Navigating to ..."
ShotSetViewport ==
    /\ shot.pc = "setViewport"
    /\ \/ shot' = [shot EXCEPT
                     !.pc = "goto",
                     !.targetUrl = IF StartsWithHttp(shot.url) THEN shot.url
                                   ELSE "https://" \o shot.url,
                     !.logs = @ \cup {"Navigating to"}]
       \/ shot' = Caught(shot)
    /\ UNCHANGED <<now, whois, ssl, hosting, gather, calc>>

\* await page.goto(...) and its catch
ShotGoto ==
    /\ shot.pc = "goto"
    /\ \/ shot' = [shot EXCEPT !.pc = "isClosed"]
       \/ \E msg \in GotoErrors :
            LET logged == [shot EXCEPT !.gotoError = msg,
                              !.logs = @ \cup {"Navigation failed"}]
            IN shot' =
                 IF msg = NoMessage
                 THEN Caught(logged)   \* undefined.includes throws
                 ELSE IF IsUnreachable(msg)
                      THEN [logged EXCEPT !.pc = "finally", !.ret = Null]
                      ELSE [logged EXCEPT !.pc = "isClosed"]
    /\ UNCHANGED <<now, whois, ssl, hosting, gather, calc>>

\* if (page.isClosed()) return null
ShotIsClosed ==
    /\ shot.pc = "isClosed"
    /\ \/ shot' = [shot EXCEPT !.pc = "finally", !.ret = Null,
                               !.logs = @ \cup {"Page was closed"}]
       \/ shot' = [shot EXCEPT !.pc = "mkdir"]
    /\ UNCHANGED <<now, whois, ssl, hosting, gather, calc>>

\* if (!fs.existsSync(tempDir)) fs.mkdirSync(tempDir, { recursive: true })
ShotMkdir ==
    /\ shot.pc = "mkdir"
    /\ IF shot.dirExists
       THEN shot' = [shot EXCEPT !.pc = "screenshot",
                                 !.logs = @ \cup {"Taking screenshot"}]
       ELSE \/ shot' = [shot EXCEPT !.pc = "screenshot",
                                    !.mkdirCalled = TRUE,
                                    !.dirExists = TRUE,
                                    !.logs = @ \cup {"Taking screenshot"}]
            \/ shot' = Caught([shot EXCEPT !.mkdirCalled = TRUE])
    /\ UNCHANGED <<now, whois, ssl, hosting, gather, calc>>

\* variant: the path is returned without waiting for the write
ShotScreenshotNoAwait ==
    /\ shot.pc = "screenshot"
    /\ \E written \in BOOLEAN :
         shot' = [shot EXCEPT
                    !.pc = "finally", !.screenshotCalled = TRUE,
                    !.fileWritten = written, !.fileOnDisk = written,
                    !.ret = [path |-> TempDir(shot.isVercel)]]
    /\ UNCHANGED <<now, whois, ssl, hosting, gather, calc>>

\* await page.screenshot({ path: filepath, ... }); return filepath
ShotScreenshot ==
    /\ shot.pc = "screenshot"
    /\ \/ shot' = [shot EXCEPT
                     !.pc = "finally", !.screenshotCalled = TRUE,
                     !.fileWritten = TRUE, !.fileOnDisk = TRUE,
                     !.ret = [path |-> TempDir(shot.isVercel)]]
       \/ \E partial \in BOOLEAN :
            shot' = Caught([shot EXCEPT !.screenshotCalled = TRUE,
                                        !.fileOnDisk = partial])
    /\ UNCHANGED <<now, whois, ssl, hosting, gather, calc>>

\* finally { if (browser) await browser.close().catch(log) }
ShotFinally ==
    /\ shot.pc = "finally"
    /\ IF shot.browser = "launched"
       THEN \/ shot' = [shot EXCEPT !.pc = "returned", !.result = shot.ret,
                                    !.closeCalled = TRUE, !.alive = FALSE]
            \/ \E stillAlive \in BOOLEAN :
                 shot' = [shot EXCEPT
                            !.pc = "returned", !.result = shot.ret,
                            !.closeCalled = TRUE, !.closeFailed = TRUE,
                            !.alive = stillAlive,
                            !.logs = @ \cup {"Error closing browser:"}]
       ELSE shot' = [shot EXCEPT !.pc = "returned", !.result = shot.ret]
    /\ UNCHANGED <<now, whois, ssl, hosting, gather, calc>>

(***************************************************************************)
(* Specifications                                                          *)
(***************************************************************************)
Init ==
    /\ now = 0
    /\ whois = WhoisInit
    /\ ssl = SslInit
    /\ hosting = HostingInit
    /\ gather = GatherInit
    /\ shot = ShotInit
    /\ calc = CalcInit

\* one request handled by urlChecker
Next ==
    \/ urlChecker
    \/ WhoisConnect \/ WhoisData \/ WhoisEnd \/ WhoisClose
    \/ WhoisError \/ WhoisTimeout
    \/ SslTcpConnect \/ SslSecureConnect \/ SslPeerClose
    \/ SslError \/ SslTimeout
    \/ DnsLookup \/ DnsReverse
    \/ Assemble \/ Analysis
    \/ Tick

Spec == Init /\ [][Next]_vars

\* getWhoisInfo called on its own
NextWhois ==
    \/ getWhoisInfo
    \/ WhoisConnect \/ WhoisData \/ WhoisEnd \/ WhoisClose
    \/ WhoisError \/ WhoisTimeout
    \/ Tick

SpecWhois == Init /\ [][NextWhois]_vars

\* getSSLDetails called on its own; time passes and due timers fire
NextSsl ==
    \/ getSSLDetails
    \/ SslTcpConnect \/ SslSecureConnect \/ SslPeerClose
    \/ SslError \/ SslTimeout
    \/ Tick

SpecSsl ==
    /\ Init /\ [][NextSsl]_vars
    /\ WF_vars(Tick) /\ WF_vars(SslTimeout)

\* takeScreenshot called on its own
NextShot ==
    \/ takeScreenshot
    \/ ShotGetBrowser \/ ShotNewPage \/ ShotSetViewport \/ ShotGoto
    \/ ShotIsClosed \/ ShotMkdir \/ ShotScreenshot \/ ShotFinally

SpecShot == Init /\ [][NextShot]_vars

\* the tls.connect callback on its own: every peer certificate whose
\* validTo lies within MaxDays days of the current time, and no certificate
CertOffsets == {-1, 0, 1, DayMs \div 2}
CertInputs ==
    { PeerCert(k * DayMs + o) : k \in -MaxDays..MaxDays, o \in CertOffsets }
        \cup {EmptyCert}

InitCert ==
    /\ now = 0
    /\ whois = WhoisInit
    /\ ssl = SslInit
    /\ hosting = HostingInit
    /\ gather = GatherInit
    /\ shot = ShotInit
    /\ \E cert \in CertInputs, authorized \in BOOLEAN :
          calc = [fn |-> "secureConnect", cert |-> cert,
                  authorized |-> authorized, done |-> FALSE,
                  result |-> NoResult]

SecureConnect ==
    /\ calc.fn = "secureConnect"
    /\ ~calc.done
    /\ calc' = [calc EXCEPT !.done = TRUE,
                  !.result = SecureConnectResult(calc.cert, calc.authorized)]
    /\ UNCHANGED <<now, whois, ssl, hosting, gather, shot>>

NextCert == SecureConnect

SpecCert == InitCert /\ [][NextCert]_vars

\* the head of getWhoisInfo on its own: root domain and server of every
\* domain of at most MaxLabels labels
Labels == {<<>>, <<"www">>, <<"com">>, <<"net">>, <<"org">>, <<"io">>}
Domains ==
    { Join(parts) : parts \in UNION { [1..n -> Labels] : n \in 1..MaxLabels } }

InitRoot ==
    /\ now = 0
    /\ whois = WhoisInit
    /\ ssl = SslInit
    /\ hosting = HostingInit
    /\ gather = GatherInit
    /\ shot = ShotInit
    /\ \E domain \in Domains :
          calc = [fn |-> "rootDomain", domain |-> domain, done |-> FALSE,
                  rootDomain |-> <<>>, whoisServer |-> ""]

SelectServer ==
    /\ calc.fn = "rootDomain"
    /\ ~calc.done
    /\ LET started == WhoisStarted(calc.domain)
       IN calc' = [calc EXCEPT !.done = TRUE,
                      !.rootDomain = started.rootDomain,
                      !.whoisServer = started.contacted[1]]
    /\ UNCHANGED <<now, whois, ssl, hosting, gather, shot>>

NextRoot == SelectServer

SpecRoot == InitRoot /\ [][NextRoot]_vars

\* the "end" handler on its own: every response of at most MaxLines pieces,
\* each a line of one of these shapes (the last one may lack its newline)
LineShapes ==
    { <<"Domain Name:", " ", "EXAMPLE.COM", "\n">>,
      <<"Creation Date:", " ", "1995-08-14T04:00:00Z", "\n">>,
      <<" ", "Domain Name:", " ", "OTHER.COM", " ", "\n">>,
      <<"Sponsoring Registrar:", " ", "ACME", "\n">>,
      <<"Registrar:", "\n">>,
      <<"Registry Expiry Date:", "2030-01-01", "\n">>,
      <<"creation date:", " ", " ">>,
      <<"Registrar:", " ", "MarkMonitor", " ", "Inc.", "\n">>,
      <<"No", " ", "match", "\n">> }

\* data after the pieces have arrived in order
RECURSIVE Concat(_)
Concat(pieces) ==
    IF pieces = <<>> THEN <<>> ELSE Head(pieces) \o Concat(Tail(pieces))

Responses ==
    { Concat(pieces) :
        pieces \in UNION { [1..n -> LineShapes] : n \in 0..MaxLines } }

InitParse ==
    /\ now = 0
    /\ whois = WhoisInit
    /\ ssl = SslInit
    /\ hosting = HostingInit
    /\ gather = GatherInit
    /\ shot = ShotInit
    /\ \E data \in Responses :
          calc = [fn |-> "end", data |-> data, done |-> FALSE,
                  result |-> NoResult]

EndHandler ==
    /\ calc.fn = "end"
    /\ ~calc.done
    /\ calc' = [calc EXCEPT !.done = TRUE, !.result = ParseWhois(calc.data)]
    /\ UNCHANGED <<now, whois, ssl, hosting, gather, shot>>

NextParse == EndHandler

SpecParse == InitParse /\ [][NextParse]_vars

(***************************************************************************)
(* C1: gather runs the three probes in parallel.  All three probes are     *)
(* started together (none waits for another to settle), the technical data *)
(* is assembled only when all three promises are fulfilled, the join never *)
(* fails, and once the last probe has settled the assembly is the next     *)
(* step: no time passes between the slowest probe settling and the join.   *)
(***************************************************************************)
ProbesStartedTogether ==
    /\ (whois.promise # "none") = (ssl.promise # "none")
    /\ (ssl.promise # "none") = (hosting.promise # "none")

AssembledAfterAllSettled ==
    /\ gather.pc # "failed"
    /\ gather.technicalData # NoResult => AllFulfilled
    /\ gather.pc \in {"analyzing", "responded"} =>
          gather.technicalData # NoResult

JoinIsNextStep ==
    JoinReady => (now' = now /\ gather'.pc # "joining")

GatherIsParallel ==
    /\ [](ProbesStartedTogether /\ AssembledAfterAllSettled)
    /\ [][JoinIsNextStep]_vars

\* the data was assembled after the probes settled at different times
GatherJoinedLate ==
    /\ gather.technicalData # NoResult
    /\ whois.by = "end" /\ ssl.by = "timeout" /\ hosting.by = "reverse"
    /\ now > TimeoutSecs

(***************************************************************************)
(* C2: in every assembled Dossier whois is a record with a raw field (only *)
(* raw when the lookup failed), ssl and hosting are each null or a record, *)
(* and each field is exactly what its own probe resolved with, whatever    *)
(* the other probes did.                                                   *)
(***************************************************************************)
DossierShape ==
    gather.technicalData # NoResult =>
        LET td == gather.technicalData
        IN /\ "raw" \in DOMAIN td.whois
           /\ whois.by \in {"error", "timeout"} => DOMAIN td.whois = {"raw"}
           /\ td.ssl = Null \/ "valid" \in DOMAIN td.ssl
           /\ td.hosting = Null \/ "ip" \in DOMAIN td.hosting
           /\ td.whois = whois.result
           /\ td.ssl = ssl.result
           /\ td.hosting = hosting.result
           /\ ssl.by \in {"error", "timeout"} => td.ssl = Null
           /\ (hosting.by = "lookupError") = (td.hosting = Null)

\* a Dossier with a failed WHOIS, no certificate and a hosting record
DossierPartial ==
    /\ gather.technicalData # NoResult
    /\ whois.by = "error"
    /\ gather.technicalData.ssl = Null
    /\ gather.technicalData.hosting # Null

(***************************************************************************)
(* C3: the WHOIS lookup never fails with an exception.  Its promise is     *)
(* never rejected; a socket error resolves it with the record that has     *)
(* only raw = "Error fetching whois data", a timeout with the record that  *)
(* has only raw = "Whois request timed out", and a socket that has closed  *)
(* always leaves the promise resolved.                                     *)
(***************************************************************************)
WhoisNeverRejects ==
    /\ whois.promise # "rejected"
    /\ whois.by = "error" => whois.result = WhoisErrorRecord
    /\ whois.by = "timeout" => whois.result = WhoisTimeoutRecord
    /\ whois.by \in {"error", "timeout"} => DOMAIN whois.result = {"raw"}
    /\ whois.sock = "closed" => whois.promise = "fulfilled"

\* a socket error after response bytes had arrived
WhoisFailedAfterData ==
    /\ whois.by = "error"
    /\ whois.data # <<>>
    /\ whois.promise = "fulfilled"

(***************************************************************************)
(* C4: the WHOIS timer runs from connection start: once 5 seconds have     *)
(* passed since getWhoisInfo opened the connection, the lookup is no       *)
(* longer pending, whatever state it was in.                               *)
(***************************************************************************)
WhoisDeadlineFromStart ==
    whois.promise = "pending" => now <= TimeoutSecs

(***************************************************************************)
(* C5: if the WHOIS server has sent no response within 5 seconds of the    *)
(* start of the lookup, and no socket error occurs, the lookup resolves    *)
(* with the record whose raw says that the request timed out.              *)
(***************************************************************************)
NoResponseWithin5 ==
    \/ whois.late
    \/ whois.data = <<>> /\ now > TimeoutSecs

WhoisSilentTimesOut ==
    (whois.promise = "fulfilled" /\ NoResponseWithin5 /\ whois.by # "error")
        => whois.result = WhoisTimeoutRecord

(***************************************************************************)
(* C6: the certificate inspection never raises and never hangs.  Its       *)
(* promise is never rejected; a socket error or a timeout that settles it  *)
(* resolves null; a record is only ever the result of the handshake        *)
(* callback; the socket never waits in the handshake for more than 5       *)
(* seconds; and a pending inspection always eventually resolves.           *)
(***************************************************************************)
SslSafe ==
    /\ ssl.promise # "rejected"
    /\ ssl.by \in {"error", "timeout"} => ssl.result = Null
    /\ (ssl.promise = "fulfilled" /\ ssl.result # Null) =>
          ssl.by = "secureConnect"
    /\ ssl.sock = "handshaking" => ssl.idle <= TimeoutSecs
    /\ ssl.sock = "closed" => ssl.promise = "fulfilled"

SslNeverRaisesNorHangs ==
    /\ []SslSafe
    /\ (ssl.promise = "pending") ~> (ssl.promise = "fulfilled")

\* the handshake did not complete in 5 seconds and the timer resolved null
SslHandshakeTimedOut ==
    /\ ssl.by = "timeout"
    /\ ssl.result = Null
    /\ now > TimeoutSecs

(***************************************************************************)
(* C7 as stated: each probe's socket is closed exactly once by the time    *)
(* the probe has finished, and no path closes it twice.                    *)
(***************************************************************************)
SocketClosedWhenFinished ==
    /\ whois.promise = "fulfilled" =>
          (whois.sock = "closed" /\ whois.closes = 1)
    /\ ssl.promise = "fulfilled" => (ssl.sock = "closed" /\ ssl.closes = 1)
    /\ whois.closeCalls <= 1
    /\ ssl.closeCalls <= 1

(***************************************************************************)
(* C7 as amended: a probe's socket is closed at most once and is never     *)
(* left open.  When the probe resolves after a socket error or a timeout   *)
(* the socket is already closed.  When it resolves with success the socket *)
(* is only closing (WHOIS: the peer has sent EOF and nothing restarts the  *)
(* idle timer any more; certificate: socket.end has half-closed it).  An   *)
(* open socket keeps its idle timer, and a due timer destroys it, so the   *)
(* socket is closed by the peer, by an error, or by the destroy of the     *)
(* 5-second idle timeout, which on the certificate path is a second close  *)
(* call after socket.end.                                                  *)
(***************************************************************************)
SocketClosing(p) ==
    /\ p.closes <= 1
    /\ (p.sock = "closed") = (p.closes = 1)
    /\ p.by \in {"error", "timeout"} => p.sock = "closed"
    /\ p.promise = "fulfilled" => p.sock \in {"ended", "closed"}
    /\ p.sock \notin {"none", "closed"} => p.idle <= TimeoutSecs

SocketWindsDown(p, q) ==
    /\ TimerDue(p) => (q = p \/ q.sock = "closed")
    /\ p.sock = "ended" => q.sock \in {"ended", "closed"}
    /\ p.sock = "closed" => q = p

WhoisIdleAfterEof ==
    whois.sock = "ended" => whois'.idle >= whois.idle

SocketsClosedOnce ==
    /\ [](SocketClosing(whois) /\ SocketClosing(ssl))
    /\ [](whois.closeCalls <= 1 /\ ssl.closeCalls <= 2)
    /\ [][SocketWindsDown(whois, whois') /\ SocketWindsDown(ssl, ssl')]_vars
    /\ [][WhoisIdleAfterEof]_vars

\* the certificate was read, the socket half-closed, and the idle timeout
\* destroyed it 5 seconds later
SslClosedByTimeoutAfterEnd ==
    /\ ssl.by = "secureConnect"
    /\ ssl.result # Null
    /\ ssl.sock = "closed"
    /\ ssl.closeCalls = 2
    /\ whois.by = "end" /\ whois.sock = "closed"

(***************************************************************************)
(* C8: guaranteed browser cleanup.  Whenever takeScreenshot has returned   *)
(* after a browser was launched, browser.close() was called and awaited    *)
(* first; the browser is closed unless the close itself failed; a failed   *)
(* close is logged, and the call still returns the value chosen before     *)
(* the cleanup and does not raise.                                         *)
(***************************************************************************)
BrowserCleanedUp ==
    (shot.pc = "returned" /\ shot.browser = "launched") =>
        /\ shot.closeCalled
        /\ ~shot.closeFailed => ~shot.alive
        /\ shot.closeFailed => "Error closing browser:" \in shot.logs
        /\ shot.result = shot.ret
        /\ shot.result # NoResult
        /\ ~shot.raised

\* the screenshot was written, the close failed, the path is still returned
ShotCloseFailedAfterWrite ==
    /\ shot.pc = "returned"
    /\ shot.browser = "launched"
    /\ shot.closeFailed
    /\ shot.fileWritten
    /\ shot.result # Null

(***************************************************************************)
(* C9: when navigation fails with a name-resolution or connection error,   *)
(* takeScreenshot returns null and attempts no screenshot: no temporary    *)
(* directory or file is created.                                           *)
(***************************************************************************)
ConnectionErrorCodes ==
    {"ERR_NAME_NOT_RESOLVED", "DNS_PROBE_FINISHED_NXDOMAIN",
     "ERR_CONNECTION_REFUSED", "ERR_CONNECTION_RESET",
     "ERR_CONNECTION_TIMED_OUT"}

NavigationConnectionError ==
    \E code \in ConnectionErrorCodes : Includes(shot.gotoError, code)

UnreachableYieldsNull ==
    NavigationConnectionError =>
        /\ ~shot.mkdirCalled
        /\ ~shot.screenshotCalled
        /\ ~shot.fileOnDisk
        /\ shot.pc = "returned" => shot.result = Null

(***************************************************************************)
(* C10: takeScreenshot never raises.  An error thrown at any step resolves *)
(* the call to null, and a non-null result is returned only after the      *)
(* screenshot was written.                                                 *)
(***************************************************************************)
ShotNeverRaises ==
    /\ ~shot.raised
    /\ shot.pc = "returned" =>
          /\ shot.result # NoResult
          /\ "Screenshot Error:" \in shot.logs => shot.result = Null
          /\ shot.result # Null =>
                (shot.screenshotCalled /\ shot.fileWritten)

\* the screenshot write threw: null is returned and the browser closed
ShotWriteFailed ==
    /\ shot.pc = "returned"
    /\ shot.screenshotCalled
    /\ ~shot.fileWritten
    /\ shot.result = Null
    /\ shot.closeCalled

(***************************************************************************)
(* C11 as stated: a failed forward resolution yields null; a forward       *)
(* success whose reverse lookup fails or returns no name yields a record   *)
(* with ip set and reverse absent.                                         *)
(***************************************************************************)
NoReverseName ==
    \/ hosting.by = "reverseError"
    \/ hosting.by = "reverse" /\ hosting.result.reverse = ""

ReverseAbsent ==
    /\ hosting.by = "lookupError" => hosting.result = Null
    /\ NoReverseName =>
          /\ hosting.result.ip = hosting.address
          /\ "reverse" \notin DOMAIN hosting.result

(***************************************************************************)
(* C11 as amended: a failed forward resolution yields null; a forward      *)
(* success always yields a record with ip set to the resolved address and  *)
(* with a reverse field, which is the empty string when the reverse lookup *)
(* fails or returns no name and the first returned name otherwise.         *)
(***************************************************************************)
ReverseEmptyString ==
    /\ hosting.by = "lookupError" => hosting.result = Null
    /\ hosting.by \in {"reverse", "reverseError"} =>
          /\ DOMAIN hosting.result = {"ip", "reverse"}
          /\ hosting.result.ip = hosting.address
          /\ hosting.result.ip \in Addresses
          /\ hosting.result.reverse \in
                {""} \cup {r[1] : r \in ReverseAnswers \ {<<>>}}
    /\ hosting.by = "reverseError" => hosting.result.reverse = ""
    /\ hosting.promise = "fulfilled" =>
          hosting.by \in {"lookupError", "reverse", "reverseError"}

\* the address resolved, the reverse lookup failed, the record was returned
ReverseLookupFailed ==
    /\ hosting.by = "reverseError"
    /\ hosting.result # Null
    /\ hosting.result.reverse = ""

(***************************************************************************)
(* C12: for every certificate obtained, daysRemaining is the signed        *)
(* integer floor((validTo - now) / 1 day), i.e. the one integer d with     *)
(* d days <= validTo - now < d + 1 days, and it is negative for every      *)
(* certificate whose validTo is before the current time.                   *)
(***************************************************************************)
CertObtained ==
    /\ calc.fn = "secureConnect"
    /\ calc.done
    /\ calc.result # Null

DaysRemainingIsFloor ==
    CertObtained =>
        LET d == calc.result.daysRemaining
            ms == calc.cert.msLeft
        IN /\ d \in Int
           /\ d * DayMs <= ms
           /\ ms < (d + 1) * DayMs
           /\ ms < 0 => d < 0

\* a certificate that expired less than a day ago was inspected
ExpiredWithinTheDay ==
    /\ CertObtained
    /\ calc.cert.msLeft < 0
    /\ -calc.cert.msLeft < DayMs
    /\ calc.result.daysRemaining = -1

(***************************************************************************)
(* C13 as stated: for every certificate obtained, expired ones included,   *)
(* daysRemaining is the number of whole days between validTo and the       *)
(* current time, truncated toward zero.                                    *)
(***************************************************************************)
WholeDaysTowardZero(ms) ==
    IF ms >= 0 THEN ms \div DayMs ELSE -((-ms) \div DayMs)

DaysTruncatedTowardZero ==
    CertObtained =>
        calc.result.daysRemaining = WholeDaysTowardZero(calc.cert.msLeft)

(***************************************************************************)
(* C13 as amended: for every certificate obtained, daysRemaining is the    *)
(* number of whole days between validTo and the current time rounded       *)
(* toward minus infinity: the count truncated toward zero for a            *)
(* certificate that has not expired or that expired a whole number of days *)
(* ago, and one less than that count for every other expired certificate.  *)
(***************************************************************************)
DaysRoundedDown ==
    CertObtained =>
        LET ms == calc.cert.msLeft
            whole == WholeDaysTowardZero(ms)
        IN calc.result.daysRemaining =
              IF ms >= 0 \/ whole * DayMs = ms THEN whole ELSE whole - 1

\* a certificate expired one day and a fraction ago: -2, not -1
ExpiredADayAndAFraction ==
    /\ CertObtained
    /\ calc.cert.msLeft < -DayMs
    /\ calc.cert.msLeft > -2 * DayMs
    /\ calc.result.daysRemaining = -2

(***************************************************************************)
(* C14: whenever the handshake callback yields a record, its valid field   *)
(* is true whether socket.authorized is true or false; when the handshake  *)
(* succeeds but the peer certificate is empty, the result is null.         *)
(***************************************************************************)
ValidMeansCertObtained ==
    calc.fn = "secureConnect" /\ calc.done =>
        /\ DOMAIN calc.cert = {} => calc.result = Null
        /\ DOMAIN calc.cert # {} =>
              /\ calc.result # Null
              /\ "valid" \in DOMAIN calc.result
              /\ calc.result.valid = TRUE

\* an unauthorized handshake produced a record
UnauthorizedCertReported ==
    /\ CertObtained
    /\ ~calc.authorized
    /\ calc.result.valid

(***************************************************************************)
(* C15: a domain with three or more dot-separated labels is reduced to     *)
(* exactly its last two labels joined by a dot (the part of the domain     *)
(* after its second-to-last dot); a domain with one or two labels is       *)
(* queried unchanged.                                                      *)
(***************************************************************************)
DotsIn(str) == Cardinality({ i \in 1..Len(str) : str[i] = "." })

RootIsLastTwoLabels ==
    calc.fn = "rootDomain" /\ calc.done =>
        LET d == calc.domain
            r == calc.rootDomain
        IN IF DotsIn(d) >= 2
           THEN /\ DotsIn(r) = 1
                /\ Len(r) < Len(d)
                /\ r = SubSeq(d, Len(d) - Len(r) + 1, Len(d))
                /\ d[Len(d) - Len(r)] = "."
           ELSE r = d

\* a three-label domain was reduced
SubdomainRemoved ==
    /\ calc.fn = "rootDomain" /\ calc.done
    /\ calc.domain = <<"www", ".", "www", ".", "com">>
    /\ calc.rootDomain = <<"www", ".", "com">>

(***************************************************************************)
(* C16: the server is chosen from the last label of the root domain: com   *)
(* and net select whois.verisign-grs.com, org selects whois.pir.org, io    *)
(* selects whois.nic.io, every other last label selects whois.iana.org;    *)
(* one server is contacted per lookup, whatever the response.              *)
(***************************************************************************)
LastLabel(str) ==
    LET dots == { i \in 1..Len(str) : str[i] = "." }
        last == IF dots = {} THEN 0
                ELSE CHOOSE i \in dots : \A j \in dots : j <= i
    IN SubSeq(str, last + 1, Len(str))

OneServerFromTld ==
    whois.sock # "none" =>
        /\ Len(whois.contacted) = 1
        /\ LET tld == LastLabel(whois.rootDomain)
               server == whois.contacted[1]
           IN /\ tld \in {<<"com">>, <<"net">>} =>
                    server = "whois.verisign-grs.com"
              /\ tld = <<"org">> => server = "whois.pir.org"
              /\ tld = <<"io">> => server = "whois.nic.io"
              /\ tld \notin {<<"com">>, <<"net">>, <<"org">>, <<"io">>} =>
                    server = "whois.iana.org"

\* a lookup at the fallback server ran to EOF with a response
IanaLookupCompleted ==
    /\ whois.by = "end"
    /\ whois.sock = "closed"
    /\ whois.data # <<>>
    /\ whois.domain = <<"www", ".", "example", ".", "co", ".", "uk">>
    /\ whois.contacted = <<"whois.iana.org">>

(***************************************************************************)
(* C17 as stated: at EOF each of domainName, registrar, creationDate and   *)
(* expirationDate is the trimmed value that follows its prefix (matched    *)
(* case-insensitively) on the line that starts with that prefix, and a     *)
(* field whose prefix starts no line stays absent; a response containing   *)
(* the line "Creation Date: 1995-08-14T04:00:00Z" yields that creationDate.*)
(***************************************************************************)
FieldLabel ==
    [domainName |-> "domain name:", registrar |-> "registrar:",
     creationDate |-> "creation date:",
     expirationDate |-> "registry expiry date:"]

\* the prefix a token is, lower-cased
PrefixOf(t) ==
    CASE t \in {"Domain Name:", "domain name:"} -> "domain name:"
      [] t \in {"Registrar:"} -> "registrar:"
      [] t \in {"Creation Date:", "creation date:"} -> "creation date:"
      [] t \in {"Registry Expiry Date:"} -> "registry expiry date:"
      [] OTHER -> "none"

\* the last position of the line that position p lies on, newline excluded
LineEnd(s, p) ==
    CHOOSE e \in (p - 1)..Len(s) :
        /\ \A j \in p..e : s[j] # "\n"
        /\ e = Len(s) \/ s[e + 1] = "\n"

\* the tokens of positions a..b without the blanks at either end
Stripped(s, a, b) ==
    LET kept == { j \in a..b : ~IsSpace(s[j]) }
    IN IF kept = {} THEN <<>>
       ELSE SubSeq(s, CHOOSE j \in kept : \A k \in kept : j <= k,
                      CHOOSE j \in kept : \A k \in kept : k <= j)

\* the positions where a line starts with the prefix
LinesStartingWith(s, prefix) ==
    { i \in 1..Len(s) : /\ i = 1 \/ s[i - 1] = "\n"
                        /\ PrefixOf(s[i]) = prefix }

CreationDateLine == <<"Creation Date:", " ", "1995-08-14T04:00:00Z", "\n">>

HasCreationDateLine(s) ==
    \E i \in 1..Len(s) :
        /\ i = 1 \/ s[i - 1] = "\n"
        /\ i + 3 <= Len(s)
        /\ SubSeq(s, i, i + 3) = CreationDateLine

FieldsFromLineStart ==
    calc.fn = "end" /\ calc.done =>
        LET s == calc.data
            rec == calc.result
        IN /\ \A f \in DOMAIN FieldLabel :
                LET lines == LinesStartingWith(s, FieldLabel[f])
                IN IF lines = {}
                   THEN f \notin DOMAIN rec
                   ELSE /\ f \in DOMAIN rec
                        /\ \E i \in lines :
                              rec[f] = Stripped(s, i + 1, LineEnd(s, i + 1))
           /\ HasCreationDateLine(s) =>
                 /\ "creationDate" \in DOMAIN rec
                 /\ rec.creationDate = <<"1995-08-14T04:00:00Z">>

(***************************************************************************)
(* C17 as amended: at EOF each field is taken from the first place in the  *)
(* response, anywhere in a line, where its prefix (case-insensitively) is  *)
(* followed by one or more blanks or newlines and then by a character that *)
(* is not a newline: the field is the trimmed text from there to the end   *)
(* of that line, which is the next non-blank line when nothing follows the *)
(* prefix on its own line; a field with no such place stays absent, also   *)
(* when the prefix is directly followed by its value; a response whose     *)
(* first "creation date:" is the line "Creation Date:                      *)
(* 1995-08-14T04:00:00Z" yields that creationDate; raw is the response.    *)
(***************************************************************************)
\* the prefix a token contains, lower-cased
PrefixIn(t) ==
    IF t = "Sponsoring Registrar:" THEN "registrar:" ELSE PrefixOf(t)

\* where the value can begin after the prefix at position i
ValueStarts(s, i) ==
    { p \in (i + 2)..Len(s) : /\ \A j \in (i + 1)..(p - 1) : IsSpace(s[j])
                              /\ s[p] # "\n" }

\* the positions of the prefix that are followed by blanks and a value
PlacesOf(s, label) ==
    { i \in 1..Len(s) : PrefixIn(s[i]) = label /\ ValueStarts(s, i) # {} }

ValueAt(s, i) ==
    LET starts == ValueStarts(s, i)
        p == CHOOSE q \in starts : \A r \in starts : r <= q
    IN Stripped(s, p, LineEnd(s, p))

FieldsFromFirstMatch ==
    calc.fn = "end" /\ calc.done =>
        LET s == calc.data
            rec == calc.result
        IN /\ rec.raw = s
           /\ DOMAIN rec \subseteq {"raw"} \cup DOMAIN FieldLabel
           /\ \A f \in DOMAIN FieldLabel :
                LET places == PlacesOf(s, FieldLabel[f])
                IN IF places = {}
                   THEN f \notin DOMAIN rec
                   ELSE /\ f \in DOMAIN rec
                        /\ rec[f] = ValueAt(s,
                              CHOOSE i \in places : \A k \in places : i <= k)
           /\ (/\ HasCreationDateLine(s)
               /\ \A i \in 1..Len(s) :
                     PrefixIn(s[i]) = "creation date:" =>
                        i + 3 <= Len(s) /\ SubSeq(s, i, i + 3) = CreationDateLine)
              => /\ "creationDate" \in DOMAIN rec
                 /\ rec.creationDate = <<"1995-08-14T04:00:00Z">>

\* a prefix alone on its line took the following line as its value
NextLineTaken ==
    /\ calc.fn = "end" /\ calc.done
    /\ calc.data = <<"Registrar:", "\n",
                     "Creation Date:", " ", "1995-08-14T04:00:00Z", "\n">>
    /\ calc.result.registrar = <<"Creation Date:", " ", "1995-08-14T04:00:00Z">>
    /\ calc.result.creationDate = <<"1995-08-14T04:00:00Z">>

(***************************************************************************)
(* C18: the lookup moves through idle, connecting, connected (query sent), *)
(* receiving, closed in that order and never backwards; the query, the     *)
(* root domain followed by CRLF, is written once, by the step that         *)
(* establishes the connection; every received chunk is appended to what    *)
(* was received before, until the peer closes; the record whose raw is the *)
(* whole response is resolved by the peer's close and by nothing earlier.  *)
(***************************************************************************)
Stage(sock) ==
    CASE sock = "none" -> 0
      [] sock = "connecting" -> 1
      [] sock = "connected" -> 2
      [] sock = "receiving" -> 3
      [] sock = "ended" -> 4
      [] sock = "closed" -> 5

QueryLine == whois.rootDomain \o <<"\r\n">>

WhoisStagesHold ==
    /\ whois.sock \in {"none", "connecting"} =>
          whois.written = <<>> /\ whois.data = <<>>
    /\ whois.sock \in {"connected", "receiving", "ended"} =>
          whois.written = <<QueryLine>>
    /\ Len(whois.written) <= 1
    /\ whois.sock \in {"connecting", "connected", "receiving"} =>
          whois.promise = "pending"
    /\ whois.by = "end" =>
          /\ whois.sock \in {"ended", "closed"}
          /\ whois.written = <<QueryLine>>
          /\ whois.result.raw = whois.data
    /\ whois.promise = "fulfilled" /\ whois.by # "end" =>
          whois.result \in {WhoisErrorRecord, WhoisTimeoutRecord}

WhoisStagesStep ==
    /\ Stage(whois'.sock) >= Stage(whois.sock)
    /\ whois'.written # whois.written =>
          /\ whois.sock = "connecting" /\ whois'.sock = "connected"
          /\ whois'.written = <<QueryLine>>
    /\ whois'.data # whois.data =>
          /\ whois.sock \in {"connected", "receiving"}
          /\ whois'.sock = "receiving"
          /\ \E chunk \in Chunks : whois'.data = whois.data \o chunk
    /\ whois.by # "end" /\ whois'.by = "end" =>
          /\ whois.sock \in {"connected", "receiving"}
          /\ whois'.sock = "ended"
          /\ whois'.data = whois.data

WhoisFollowsItsOrder == []WhoisStagesHold /\ [][WhoisStagesStep]_vars

\* two different chunks arrived and the record was resolved at EOF
WhoisTwoChunksThenEof ==
    /\ whois.by = "end"
    /\ whois.sock = "closed"
    /\ whois.chunks = 2
    /\ \E c1, c2 \in Chunks :
          c1 # c2 /\ whois.data = c1 \o c2 /\ whois.result.raw = c1 \o c2
    /\ whois.written = <<QueryLine>>

(***************************************************************************)
(* C19: the result of getWhoisInfo and of getSSLDetails is fixed by the    *)
(* first settling event: once the promise is settled, no later event on    *)
(* the socket (an error, the idle timeout, the peer's close) changes the   *)
(* promise's state, its value, or the event that settled it.               *)
(***************************************************************************)
Settled(p) == p.promise \in {"fulfilled", "rejected"}

FirstSettleWinsStep ==
    /\ Settled(whois) =>
          /\ whois'.promise = whois.promise
          /\ whois'.result = whois.result
          /\ whois'.by = whois.by
    /\ Settled(ssl) =>
          /\ ssl'.promise = ssl.promise
          /\ ssl'.result = ssl.result
          /\ ssl'.by = ssl.by

FirstSettleWins == [][FirstSettleWinsStep]_vars

\* the idle timeout fired after the certificate was read and the socket
\* half-closed; the certificate record is still the result
TimeoutAfterCertificateRead ==
    /\ ssl.by = "secureConnect"
    /\ ssl.result # Null
    /\ ssl.result.valid
    /\ ssl.closeCalls = 2
    /\ ssl.sock = "closed"
    /\ gather.pc = "responded"
    /\ gather.technicalData.ssl = ssl.result

(***************************************************************************)
(* C20: when the lookup ends by timeout or by socket error after response  *)
(* bytes were received, the bytes are discarded: the record carries only   *)
(* the fixed failure text in raw and none of domainName, registrar,        *)
(* creationDate, expirationDate, whatever lines were received.             *)
(***************************************************************************)
FailureDiscardsData ==
    whois.by \in {"error", "timeout"} /\ whois.data # <<>> =>
        /\ DOMAIN whois.result = {"raw"}
        /\ whois.by = "error" =>
              whois.result.raw = <<"Error fetching whois data">>
        /\ whois.by = "timeout" =>
              whois.result.raw = <<"Whois request timed out">>
        /\ whois.result.raw # whois.data

\* the server sent its Domain Name and Creation Date lines and then went
\* silent, so the lookup timed out
TimedOutAfterFieldLines ==
    /\ whois.by = "timeout"
    /\ whois.chunks = 2
    /\ \E i, j \in 1..Len(whois.data) :
          /\ whois.data[i] = "Domain Name:"
          /\ whois.data[j] = "Creation Date:"
    /\ DOMAIN whois.result = {"raw"}

====
